---- MODULE Spec2Model ----
(***************************************************************************)
(* A model of the OpenStack deployment scripts under                       *)
(* playpen/deploy/openstack: run_tests of deploy-environment.py with the   *)
(* helpers it calls; wait_for_active_instances, create_instance,           *)
(* take_snapshot, reboot_instance and get_distribution_image of OS1Manager *)
(* in os1_utils.py; and fabric_confirm_ssh_key of utils.py,                *)
(* deploy-environment.py and setup_utils.py.  The cloud                    *)
(* (nova), the remote hosts (fabric) and the test runner are the           *)
(* environment: every call into them draws its outcome from the outcomes   *)
(* the call can have.                                                      *)
(***************************************************************************)
EXTENDS Integers, Sequences, FiniteSets, TLC

VARIABLES
    args,           \* the parsed command line, as run_tests reads it
    images,         \* nova_instance.images.list(): the distribution tag of each image
    pc,             \* the statement run_tests is at
    exc,            \* the exception being propagated, "none" if there is none
    authCalled,     \* history: os1_authenticate was called
    status,         \* the status OpenStack holds for each instance
    handle,         \* the status of the Server object the script holds for each instance
    created,        \* the instances whose create request was accepted, in order
    cur,            \* position in the loop or call sequence of the current statement
    step,           \* position in the command sequence of the current configure_* call
    attempt,        \* x of fabric_confirm_ssh_key: the 'whoami' attempts that failed so far
    result,         \* result of run_tests: the value of run('... nosetests ...'), or None
    exitCode,       \* the exit status of the process, -1 while it runs
    waited,         \* history: the instances the script slept on or polled
    tick,           \* history: the parity of the time.sleep(10) calls of create_instance
    cfgStarted,     \* history: the instances whose configure_* call was entered
    cfgDone,        \* history: the instances whose configure_* call returned
    commanded,      \* history: the instances a remote command was run against
    deleteCalls,    \* history: the number of delete calls made for each instance
    testsRun,       \* history: the nosetests command was run on the tester
    retrieved,      \* history: get('pulp-automation/nosetests.xml') returned
    failedAt,       \* history: the statement that raised first, "" if none did
    ran,            \* history: the remote calls that succeeded on each instance, in order
    instance_list,  \* wait_for_active_instances: its list of instances
    timeout,        \* wait_for_active_instances: its timeout, in minutes
    w_pc,           \* wait_for_active_instances: the statement it is at
    w_x,            \* wait_for_active_instances: x of the outer loop
    w_idx,          \* wait_for_active_instances: position in instance_list
    w_outcome,      \* wait_for_active_instances: how the call ended
    w_polls,        \* history: the number of nova.servers.get calls of the wait
    w_nonBuild,     \* history: the list positions a poll saw out of BUILD
    w_final,        \* history: the statuses the final check read, in list order
    address,        \* the address OpenStack gave each instance, "" before it has one
    networks,       \* the address the Server object the script holds shows, "" if none
    ips,            \* pulp_server_ip, pulp_consumer_ip and the tester's, "" before they are read
    hostname,       \* the host name set on each instance, "" before one is set
    facts,          \* external_pulp_server in /etc/facter/facts.d/facts.json of each instance
    hosts,          \* the <<ip, hostname>> entries appended to /etc/hosts of each instance
    module,         \* fabric_confirm_ssh_key: the module whose function is called
    s_pc,           \* fabric_confirm_ssh_key: the statement it is at
    s_x,            \* fabric_confirm_ssh_key: x of its for loop
    s_outcome,      \* fabric_confirm_ssh_key: how the call ended
    s_runs,         \* history: the number of run('whoami') calls made
    s_ok,           \* history: the number of run('whoami') calls that succeeded
    s_slept,        \* history: the seconds spent in time.sleep
    o_pc,           \* OS1Manager: the statement the called method is at
    o_instance,     \* OS1Manager: the instance the methods are called for
    o_server,       \* OS1Manager: the status of the Server object create_instance built
    o_snapshot,     \* take_snapshot: the status of the Image object it holds
    o_outcome,      \* OS1Manager: how the call of each method ended
    snapshot,       \* the status OpenStack holds for the snapshot, "NONE" before it exists
    o_atReturn,     \* history: the status OpenStack held when create_instance returned
    o_polls,        \* history: the number of nova.images.get calls of take_snapshot
    o_setMeta,      \* history: the status take_snapshot last saw at each set_meta call
    r_x,            \* reboot_instance: x of its for loop
    r_reboots,      \* history: the number of server.reboot() calls
    r_polls,        \* history: the number of nova.servers.get calls of reboot_instance
    r_slept,        \* history: the seconds reboot_instance spent in time.sleep
    r_seen,         \* history: the status each poll of reboot_instance read, in order
    distribution,   \* get_distribution_image: the distribution asked for
    i_pc,           \* get_distribution_image: the statement it is at
    pulp_image,     \* get_distribution_image: the position in images of the image found, 0 for None
    i_outcome       \* get_distribution_image: how the call ended

vars == <<args, images, pc, exc, authCalled, status, handle, created, cur, step, attempt, result,
          exitCode, waited, tick, cfgStarted, cfgDone, commanded, deleteCalls, testsRun,
          retrieved, failedAt, ran, instance_list, timeout, w_pc, w_x, w_idx, w_outcome,
          w_polls, w_nonBuild, w_final, address, networks, ips, hostname, facts, hosts,
          module, s_pc, s_x, s_outcome, s_runs, s_ok, s_slept, o_pc, o_instance,
          o_server, o_snapshot, o_outcome, snapshot, o_atReturn, o_polls, o_setMeta,
          r_x, r_reboots, r_polls, r_slept, r_seen, distribution, i_pc, pulp_image,
          i_outcome>>

runVars == <<args, images, pc, exc, authCalled, handle, created, cur, step, attempt, result,
             exitCode, waited, tick, cfgStarted, cfgDone, commanded, deleteCalls, testsRun,
             retrieved, failedAt, ran>>

waitVars == <<instance_list, timeout, w_pc, w_x, w_idx, w_outcome, w_polls,
              w_nonBuild, w_final>>

hostVars == <<address, networks, ips, hostname, facts, hosts>>

sshVars == <<module, s_pc, s_x, s_outcome, s_runs, s_ok, s_slept>>

os1Vars == <<o_pc, o_instance, o_server, o_snapshot, o_outcome, snapshot, o_atReturn,
             o_polls, o_setMeta>>

rebootVars == <<r_x, r_reboots, r_polls, r_slept, r_seen>>

imgVars == <<distribution, i_pc, pulp_image, i_outcome>>

----------------------------------------------------------------------------
(* Constants of the scripts *)

OPENSTACK_ACTIVE_KEYWORD == "ACTIVE"

OPENSTACK_BUILD_KEYWORD == "BUILD"

PUPPET_MODULES == <<"puppetlabs-stdlib", "puppetlabs-mongodb", "dprince-qpid", "jcline-pulp">>

PULP_AUTO_DEPS == <<"gcc", "git", "m2crypto", "python-devel", "python-pip", "python-qpid">>

\* xrange(0, 30) of fabric_confirm_ssh_key
SSH_ATTEMPTS == 30

\* the step of range(0, timeout * 60, 10) and the seconds of a minute
POLL_SECONDS == 10

MINUTE_SECONDS == 60

----------------------------------------------------------------------------
(* Bounds of the model *)

\* the largest return code the test runner is given
MaxReturnCode == 2

\* the largest number of images the cloud lists
MaxImages == 1

\* the largest timeout, in minutes, wait_for_active_instances is called with
MaxTimeout == 1

\* the longest instance_list wait_for_active_instances is called with
MaxListLen == 2

\* the largest number of nova.images.get calls of one take_snapshot
MaxPolls == 3

\* the largest number of images get_pulp_images is given by nova.images.list()
MaxImageList == 3

----------------------------------------------------------------------------
(* Helpers *)

Range(s) == {s[k] : k \in 1..Len(s)}

SeqsUpTo(S, n) == UNION {[1..k -> S] : k \in 0..n}

\* the three instances of run_tests, by the name of the variable that holds each
Instances == {"pulp_server", "pulp_consumer", "pulp_tester"}

\* what OpenStack can report for an instance that exists
LiveStatuses == {OPENSTACK_BUILD_KEYWORD, OPENSTACK_ACTIVE_KEYWORD, "ERROR"}

\* args.distribution, and the tags an image can carry ("absent": no distribution key)
Distribution == "fc20"

ImageTags == {"fc20", "el6", "absent"}

\* the values of --server-hostname and --consumer-hostname the model tells
\* apart: "" when the option is not given
HostnameArgs == {"", "pulp-a"}

\* the addresses OpenStack hands out on the os1-internal-1319 network
Addresses == {"10.0.0.1", "10.0.0.2", "10.0.0.3"}

\* the outputs of the test runner the model tells apart
Outputs == {"", "Ran 12 tests"}

None == [none |-> TRUE, return_code |-> 0, stdout |-> ""]

----------------------------------------------------------------------------
(* run_tests of deploy-environment.py: the order of its calls *)

\* the create_instance calls of run_tests, in order
BuildOrder == <<"pulp_server", "pulp_consumer", "pulp_tester">>

\* a variant of ConfigOrder: the consumer is configured before the server
ConfigOrder_consumer_first == <<"pulp_consumer", "pulp_server", "pulp_tester">>

\* the configure_server, configure_consumer, configure_tester calls, in order
ConfigOrder == <<"pulp_server", "pulp_consumer", "pulp_tester">>

\* the list run_tests hands to tear_down
TeardownOrder == <<"pulp_server", "pulp_tester", "pulp_consumer">>

\* for module in PUPPET_MODULES: run(PUPPET_MODULE_INSTALL + module)
puppet_module_installs == [k \in 1..Len(PUPPET_MODULES) |-> <<"run", PUPPET_MODULES[k]>>]

\* for dependency in PULP_AUTO_DEPS: run(YUM_INSTALL_TEMPLATE % dependency)
pulp_auto_deps_installs == [k \in 1..Len(PULP_AUTO_DEPS) |-> <<"run", PULP_AUTO_DEPS[k]>>]

\* the remote calls of inject_external_fact
inject_external_fact ==
    << <<"fabric_confirm_ssh_key", "">>, <<"put", "facts.json">>,
       <<"run", "mkdir facts.d">>, <<"run", "mv facts.json">> >>

\* the remote calls of fabric_apply_puppet
fabric_apply_puppet == << <<"put", "manifest.pp">>, <<"run", "puppet apply">> >>

\* the remote calls of configure_server
configure_server ==
    << <<"fabric_confirm_ssh_key", "">>, <<"run", "hostname">> >>
    \o puppet_module_installs \o inject_external_fact \o fabric_apply_puppet

\* a variant of configure_consumer: /etc/hosts is written before the manifest
\* is applied
configure_consumer_hosts_first ==
    << <<"fabric_confirm_ssh_key", "">>, <<"run", "authorize root ssh">>,
       <<"run", "hostname">> >>
    \o puppet_module_installs \o inject_external_fact
    \o << <<"run", "hosts server">> >> \o fabric_apply_puppet

\* the remote calls of configure_consumer
configure_consumer ==
    << <<"fabric_confirm_ssh_key", "">>, <<"run", "authorize root ssh">>,
       <<"run", "hostname">> >>
    \o puppet_module_installs \o inject_external_fact \o fabric_apply_puppet
    \o << <<"run", "hosts server">> >>

\* the remote calls of configure_tester
configure_tester ==
    pulp_auto_deps_installs
    \o << <<"run", "install test suite">>, <<"run", "hosts server">>,
          <<"run", "hosts consumer">>, <<"put", "id_rsa">>, <<"run", "chmod 600">>,
          <<"get", "inventory.yml">>, <<"put", "inventory.yml">> >>

\* the remote calls of the configure_* function applied to an instance
Commands(i) ==
    CASE i = "pulp_server" -> configure_server
      [] i = "pulp_consumer" -> configure_consumer
      [] OTHER -> configure_tester

----------------------------------------------------------------------------
(* run_tests: the host names and addresses it hands to the configure_* calls *)

\* pulp_server_hostname = args.server_hostname or 'pulp-server'
pulp_server_hostname ==
    IF args.server_hostname # "" THEN args.server_hostname ELSE "pulp-server"

\* pulp_consumer_hostname = args.consumer_hostname or 'pulp-consumer'
pulp_consumer_hostname ==
    IF args.consumer_hostname # "" THEN args.consumer_hostname ELSE "pulp-consumer"

\* a variant of CallArgs: the consumer's address is passed as server_ip
CallArgs_consumer_ip(i) ==
    [host_string |-> ips[i],
     server_ip |-> ips["pulp_consumer"],
     server_hostname |-> pulp_server_hostname,
     consumer_ip |-> ips["pulp_consumer"],
     consumer_hostname |-> pulp_consumer_hostname]

\* the arguments of the configure_* call made for instance i, by parameter
\* name; configure_server has no server_ip, configure_server and
\* configure_consumer have no consumer_ip: the model never reads them there
CallArgs(i) ==
    [host_string |-> ips[i],
     server_ip |-> ips["pulp_server"],
     server_hostname |-> pulp_server_hostname,
     consumer_ip |-> ips["pulp_consumer"],
     consumer_hostname |-> pulp_consumer_hostname]

\* the instance fabric reaches at the address of a host string
HostAt(ip) == CHOOSE j \in Instances : address[j] = ip

\* HOSTS_TEMPLATE % {'ip': ip, 'hostname': name}, appended to /etc/hosts
HOSTS_TEMPLATE(ip, name) == <<ip, name>>

\* what a command of the configure_* call for instance i, run with the
\* arguments a, leaves on the host it is run on
RemoteEffect(i, cmd, a) ==
    LET t == HostAt(a.host_string) IN
    CASE cmd = <<"run", "hostname">> ->
           /\ hostname' = [hostname EXCEPT ![t] =
                              IF i = "pulp_server" THEN a.server_hostname
                              ELSE a.consumer_hostname]
           /\ UNCHANGED <<facts, hosts>>
      [] cmd = <<"run", "mv facts.json">> ->
           /\ facts' = [facts EXCEPT ![t] =
                           IF i = "pulp_consumer" THEN a.server_hostname ELSE ""]
           /\ UNCHANGED <<hostname, hosts>>
      [] cmd = <<"run", "hosts server">> ->
           /\ hosts' = [hosts EXCEPT ![t] =
                           Append(@, HOSTS_TEMPLATE(a.server_ip, a.server_hostname))]
           /\ UNCHANGED <<hostname, facts>>
      [] cmd = <<"run", "hosts consumer">> ->
           /\ hosts' = [hosts EXCEPT ![t] =
                           Append(@, HOSTS_TEMPLATE(a.consumer_ip, a.consumer_hostname))]
           /\ UNCHANGED <<hostname, facts>>
      [] OTHER -> UNCHANGED <<hostname, facts, hosts>>

----------------------------------------------------------------------------
(* run_tests: control flow *)

\* a variant of create_instance_waiting: return the server without waiting
create_instance_returning(st) == FALSE

\* the loop condition of create_instance: keep sleeping and polling
create_instance_waiting(st) == st = OPENSTACK_BUILD_KEYWORD

\* a variant of TryBlock: the try statement starts before the first create_instance
TryBlock_from_build == {"create", "wait", "get_ip", "configure", "nosetests", "get_results"}

\* the statements run_tests wraps in try: ... finally: tear_down(...)
TryBlock == {"nosetests", "get_results"}

\* a variant of AfterRaise: the exception is swallowed and the tests are run
AfterRaise_continue(where) == "nosetests"

\* where control goes when the statement at `where` raises
AfterRaise(where) == IF where \in TryBlock THEN "tear_down" ELSE "exit"

\* a variant of AfterConfigure: args.setup_only is not looked at
AfterConfigure_always_test(setup_only) == "nosetests"

\* where control goes after configure_tester returned: if not args.setup_only
AfterConfigure(setup_only) == IF setup_only THEN "sys_exit" ELSE "nosetests"

\* the truth value Python gives `result`: None and the empty string are false
Truthy(r) == ~r.none /\ r.stdout # ""

\* if result: sys.exit(result.return_code) else: sys.exit(1)
ExitStatus(r) == IF Truthy(r) THEN r.return_code ELSE 1

\* an exception leaves the current statement; outside the try block nothing
\* catches it and the interpreter exits with status 1
Raise(e) ==
    /\ exc' = e
    /\ failedAt' = IF failedAt[1] = "" THEN <<pc, cur, step>> ELSE failedAt
    /\ pc' = AfterRaise(pc)
    /\ cur' = IF AfterRaise(pc) = "tear_down" THEN 1 ELSE cur
    /\ exitCode' = IF AfterRaise(pc) = "exit" THEN 1 ELSE exitCode

\* run_tests has not run a statement yet: no exception, no Server object, no
\* call made
RunFresh ==
    /\ exc = "none"
    /\ authCalled = FALSE
    /\ handle = [i \in Instances |-> "NONE"]
    /\ created = <<>>
    /\ cur = 1
    /\ step = 1
    /\ attempt = 0
    /\ result = None
    /\ exitCode = -1
    /\ waited = {}
    /\ tick = 0
    /\ cfgStarted = {}
    /\ cfgDone = {}
    /\ commanded = {}
    /\ deleteCalls = [i \in Instances |-> 0]
    /\ testsRun = FALSE
    /\ retrieved = FALSE
    /\ failedAt = <<"", 0, 0>>
    /\ ran = [i \in Instances |-> <<>>]

\* no instance has an address, no address was read, no remote file was written
HostsFresh ==
    /\ address = [i \in Instances |-> ""]
    /\ networks = [i \in Instances |-> ""]
    /\ ips = [i \in Instances |-> ""]
    /\ hostname = [i \in Instances |-> ""]
    /\ facts = [i \in Instances |-> ""]
    /\ hosts = [i \in Instances |-> <<>>]

\* no call of wait_for_active_instances is in progress
WaitIdle ==
    /\ instance_list = <<>>
    /\ timeout = 0
    /\ w_pc = "idle"
    /\ w_x = 0
    /\ w_idx = 1
    /\ w_outcome = "none"
    /\ w_polls = 0
    /\ w_nonBuild = {}
    /\ w_final = <<>>

\* a variant of files_missing: the server manifest is not checked
files_missing_two_checks(a) == ~a.key_file \/ ~a.consumer_puppet

\* run_tests is not running: the other functions are called on their own
RunIdle ==
    /\ args = [key_file |-> TRUE, consumer_puppet |-> TRUE, server_puppet |-> TRUE,
               setup_only |-> FALSE, server_hostname |-> "", consumer_hostname |-> ""]
    /\ images = <<>>
    /\ pc = "idle"
    /\ RunFresh
    /\ HostsFresh

\* no call of a fabric_confirm_ssh_key is in progress
SshIdle ==
    /\ module = "none"
    /\ s_pc = "idle"
    /\ s_x = 0
    /\ s_outcome = "none"
    /\ s_runs = 0
    /\ s_ok = 0
    /\ s_slept = 0

\* the methods of OS1Manager the model calls
Methods == {"create_instance", "take_snapshot", "reboot_instance"}

\* reboot_instance has not been called
RebootFresh ==
    /\ r_x = 0
    /\ r_reboots = 0
    /\ r_polls = 0
    /\ r_slept = 0
    /\ r_seen = <<>>

\* no call of get_distribution_image is in progress
ImageIdle ==
    /\ distribution = "none"
    /\ i_pc = "idle"
    /\ pulp_image = 0
    /\ i_outcome = "none"

\* no method of OS1Manager has been called
OS1Fresh ==
    /\ RebootFresh
    /\ o_server = "NONE"
    /\ o_snapshot = "NONE"
    /\ o_outcome = [f \in Methods |-> "none"]
    /\ snapshot = "NONE"
    /\ o_atReturn = "NONE"
    /\ o_polls = 0
    /\ o_setMeta = <<>>

\* no OS1Manager is in use
OS1Idle ==
    /\ o_pc = "idle"
    /\ o_instance = "none"
    /\ OS1Fresh

\* the three files run_tests requires: os.path.isfile of the key file and of
\* the two puppet manifests
files_missing(a) == ~a.key_file \/ ~a.consumer_puppet \/ ~a.server_puppet

Init ==
    /\ args \in [key_file : BOOLEAN, consumer_puppet : BOOLEAN,
                 server_puppet : BOOLEAN, setup_only : BOOLEAN,
                 server_hostname : HostnameArgs, consumer_hostname : HostnameArgs]
    /\ images \in SeqsUpTo(ImageTags, MaxImages)
    /\ pc = "validate"
    /\ status = [i \in Instances |-> "NONE"]
    /\ RunFresh
    /\ HostsFresh
    /\ WaitIdle
    /\ SshIdle
    /\ OS1Idle
    /\ ImageIdle

\* the os.path.isfile checks
validate_files ==
    /\ pc = "validate"
    /\ IF files_missing(args)
       THEN Raise("ValueError")
       ELSE pc' = "authenticate" /\ UNCHANGED <<exc, failedAt, cur, exitCode>>
    /\ UNCHANGED <<ran, authCalled, args, images, status, handle, created, step, attempt, result,
                   waited, tick, cfgStarted, cfgDone, commanded, deleteCalls, testsRun,
                   retrieved>>
    /\ UNCHANGED waitVars
    /\ UNCHANGED sshVars
    /\ UNCHANGED os1Vars
    /\ UNCHANGED <<rebootVars, imgVars>>
    /\ UNCHANGED hostVars

\* os1_authenticate(**os1_details)
os1_authenticate ==
    /\ pc = "authenticate"
    /\ authCalled' = TRUE
    /\ \E ok \in BOOLEAN :
         IF ok
         THEN pc' = "images" /\ UNCHANGED <<exc, failedAt, cur, exitCode>>
         ELSE Raise("ClientException")
    /\ UNCHANGED <<ran, args, images, status, handle, created, step, attempt, result,
                   waited, tick, cfgStarted, cfgDone, commanded, deleteCalls, testsRun,
                   retrieved>>
    /\ UNCHANGED waitVars
    /\ UNCHANGED sshVars
    /\ UNCHANGED os1Vars
    /\ UNCHANGED <<rebootVars, imgVars>>
    /\ UNCHANGED hostVars

\* the images whose distribution metadata is args.distribution
pulp_server_images == SelectSeq(images, LAMBDA tag : tag = Distribution)

\* gather the image to build
gather_images ==
    /\ pc = "images"
    /\ IF pulp_server_images = <<>>
       THEN Raise("ValueError")
       ELSE pc' = "create" /\ cur' = 1 /\ UNCHANGED <<exc, failedAt, exitCode>>
    /\ UNCHANGED <<ran, authCalled, args, images, status, handle, created, step, attempt, result,
                   waited, tick, cfgStarted, cfgDone, commanded, deleteCalls, testsRun,
                   retrieved>>
    /\ UNCHANGED waitVars
    /\ UNCHANGED sshVars
    /\ UNCHANGED os1Vars
    /\ UNCHANGED <<rebootVars, imgVars>>
    /\ UNCHANGED hostVars

\* create_instance: nova.flavors.find and nova.servers.create; an accepted
\* request starts the instance in BUILD, which is what the returned Server reads
create_instance_request ==
    /\ pc = "create"
    /\ LET i == BuildOrder[cur] IN
         \E ok \in BOOLEAN :
           IF ok
           THEN /\ status' = [status EXCEPT ![i] = OPENSTACK_BUILD_KEYWORD]
                /\ handle' = [handle EXCEPT ![i] = OPENSTACK_BUILD_KEYWORD]
                /\ networks' = [networks EXCEPT ![i] = ""]
                /\ created' = Append(created, i)
                /\ pc' = "wait"
                /\ UNCHANGED <<exc, failedAt, cur, exitCode>>
           ELSE /\ Raise("ClientException")
                /\ UNCHANGED <<status, handle, networks, created>>
    /\ UNCHANGED <<ran, authCalled, args, images, step, attempt, result, waited, tick, cfgStarted,
                   cfgDone, commanded, deleteCalls, testsRun, retrieved>>
    /\ UNCHANGED waitVars
    /\ UNCHANGED sshVars
    /\ UNCHANGED os1Vars
    /\ UNCHANGED <<rebootVars, imgVars>>
    /\ UNCHANGED <<address, ips, hostname, facts, hosts>>

\* create_instance: while server.status == BUILD: sleep, nova.servers.get;
\* then return server to run_tests, which goes on to its next statement
create_instance_wait ==
    /\ pc = "wait"
    /\ LET i == BuildOrder[cur] IN
         IF create_instance_waiting(handle[i])
         THEN /\ waited' = waited \cup {i}
              /\ tick' = 1 - tick
              /\ \E ok \in BOOLEAN :
                   IF ok
                   THEN /\ handle' = [handle EXCEPT ![i] = status[i]]
                        /\ networks' = [networks EXCEPT ![i] = address[i]]
                        /\ UNCHANGED <<pc, exc, failedAt, cur, exitCode>>
                   ELSE /\ Raise("ClientException")
                        /\ UNCHANGED <<handle, networks>>
         ELSE /\ IF cur < Len(BuildOrder)
                 THEN pc' = "create" /\ cur' = cur + 1
                 ELSE pc' = "get_ip" /\ cur' = 1
              /\ tick' = 0
              /\ UNCHANGED <<handle, networks, waited, exc, failedAt, exitCode>>
    /\ UNCHANGED <<ran, authCalled, args, images, status, created, step, attempt, result,
                   cfgStarted, cfgDone, commanded, deleteCalls, testsRun, retrieved>>
    /\ UNCHANGED waitVars
    /\ UNCHANGED sshVars
    /\ UNCHANGED os1Vars
    /\ UNCHANGED <<rebootVars, imgVars>>
    /\ UNCHANGED <<address, ips, hostname, facts, hosts>>

\* get_instance_ip of the server, the consumer and the tester; the last one
\* is followed by the call of configure_server
get_instance_ip ==
    /\ pc = "get_ip"
    /\ \E ok \in BOOLEAN :
         IF ok /\ networks[BuildOrder[cur]] # ""
         THEN /\ ips' = [ips EXCEPT ![BuildOrder[cur]] = networks[BuildOrder[cur]]]
              /\ IF cur < Len(BuildOrder)
                 THEN /\ cur' = cur + 1
                      /\ UNCHANGED <<pc, cfgStarted>>
                 ELSE /\ pc' = "configure"
                      /\ cur' = 1
                      /\ cfgStarted' = cfgStarted \cup {ConfigOrder[1]}
              /\ UNCHANGED <<exc, failedAt, exitCode>>
         ELSE /\ Raise("KeyError")
              /\ UNCHANGED <<cfgStarted, ips>>
    /\ step' = 1
    /\ attempt' = 0
    /\ UNCHANGED <<ran, authCalled, args, images, status, handle, created, result, waited, tick,
                   cfgDone, commanded, deleteCalls, testsRun, retrieved>>
    /\ UNCHANGED waitVars
    /\ UNCHANGED sshVars
    /\ UNCHANGED os1Vars
    /\ UNCHANGED <<rebootVars, imgVars>>
    /\ UNCHANGED <<address, networks, hostname, facts, hosts>>

\* the current command of the current configure_* call succeeded: go to the
\* next command, or return and call the next configure_*, or leave the
\* configuration phase
Advance ==
    LET i == ConfigOrder[cur] IN
    IF step < Len(Commands(i))
    THEN /\ step' = step + 1
         /\ UNCHANGED <<pc, cur, cfgStarted, cfgDone>>
    ELSE /\ step' = 1
         /\ cfgDone' = cfgDone \cup {i}
         /\ IF cur < Len(ConfigOrder)
            THEN /\ cur' = cur + 1
                 /\ cfgStarted' = cfgStarted \cup {ConfigOrder[cur + 1]}
                 /\ UNCHANGED pc
            ELSE /\ pc' = AfterConfigure(args.setup_only)
                 /\ cur' = 1
                 /\ UNCHANGED cfgStarted

\* a run, put or get of a configure_* call: fabric aborts with SystemExit
\* when the command fails
configure_command ==
    /\ pc = "configure"
    /\ Commands(ConfigOrder[cur])[step][1] # "fabric_confirm_ssh_key"
    /\ commanded' = commanded \cup {ConfigOrder[cur]}
    /\ \E ok \in BOOLEAN :
         IF ok
         THEN /\ RemoteEffect(ConfigOrder[cur], Commands(ConfigOrder[cur])[step],
                              CallArgs(ConfigOrder[cur]))
              /\ ran' = [ran EXCEPT ![ConfigOrder[cur]] =
                                Append(@, Commands(ConfigOrder[cur])[step])]
              /\ Advance
              /\ UNCHANGED <<exc, failedAt, exitCode>>
         ELSE /\ Raise("SystemExit")
              /\ UNCHANGED <<step, cfgStarted, cfgDone, hostname, facts, hosts, ran>>
    /\ UNCHANGED <<authCalled, args, images, status, handle, created, attempt, result,
                   waited, tick, deleteCalls, testsRun, retrieved>>
    /\ UNCHANGED waitVars
    /\ UNCHANGED sshVars
    /\ UNCHANGED os1Vars
    /\ UNCHANGED <<rebootVars, imgVars>>
    /\ UNCHANGED <<address, networks, ips>>

\* fabric_confirm_ssh_key: one pass of its for loop, or the loop's else
fabric_confirm_ssh_key ==
    /\ pc = "configure"
    /\ Commands(ConfigOrder[cur])[step][1] = "fabric_confirm_ssh_key"
    /\ IF attempt < SSH_ATTEMPTS
       THEN /\ commanded' = commanded \cup {ConfigOrder[cur]}
            /\ \E ok \in BOOLEAN :
                 IF ok
                 THEN /\ attempt' = 0
                      /\ ran' = [ran EXCEPT ![ConfigOrder[cur]] =
                                        Append(@, Commands(ConfigOrder[cur])[step])]
                      /\ Advance
                 ELSE /\ attempt' = attempt + 1
                      /\ UNCHANGED <<pc, cur, step, cfgStarted, cfgDone, ran>>
            /\ UNCHANGED <<exc, failedAt, exitCode>>
       ELSE /\ Raise("RuntimeError")
            /\ UNCHANGED <<commanded, attempt, step, cfgStarted, cfgDone, ran>>
    /\ UNCHANGED <<authCalled, args, images, status, handle, created, result, waited, tick,
                   deleteCalls, testsRun, retrieved>>
    /\ UNCHANGED waitVars
    /\ UNCHANGED sshVars
    /\ UNCHANGED os1Vars
    /\ UNCHANGED <<rebootVars, imgVars>>
    /\ UNCHANGED hostVars

\* result = run('cd pulp-automation && nosetests -vs --with-xunit', warn_only=True)
run_nosetests ==
    /\ pc = "nosetests"
    /\ commanded' = commanded \cup {"pulp_tester"}
    /\ \E ok \in BOOLEAN :
         IF ok
         THEN /\ \E rc \in 0..MaxReturnCode, out \in Outputs :
                   result' = [none |-> FALSE, return_code |-> rc, stdout |-> out]
              /\ testsRun' = TRUE
              /\ pc' = "get_results"
              /\ UNCHANGED <<exc, failedAt, cur, exitCode>>
         ELSE /\ Raise("SystemExit")
              /\ UNCHANGED <<result, testsRun>>
    /\ UNCHANGED <<ran, authCalled, args, images, status, handle, created, step, attempt, waited, tick,
                   cfgStarted, cfgDone, deleteCalls, retrieved>>
    /\ UNCHANGED waitVars
    /\ UNCHANGED sshVars
    /\ UNCHANGED os1Vars
    /\ UNCHANGED <<rebootVars, imgVars>>
    /\ UNCHANGED hostVars

\* get('pulp-automation/nosetests.xml'); the finally clause follows either way
get_results ==
    /\ pc = "get_results"
    /\ commanded' = commanded \cup {"pulp_tester"}
    /\ \E ok \in BOOLEAN :
         IF ok
         THEN /\ retrieved' = TRUE
              /\ pc' = "tear_down"
              /\ cur' = 1
              /\ UNCHANGED <<exc, failedAt, exitCode>>
         ELSE /\ Raise("SystemExit")
              /\ UNCHANGED retrieved
    /\ UNCHANGED <<ran, authCalled, args, images, status, handle, created, step, attempt, result,
                   waited, tick, cfgStarted, cfgDone, deleteCalls, testsRun>>
    /\ UNCHANGED waitVars
    /\ UNCHANGED sshVars
    /\ UNCHANGED os1Vars
    /\ UNCHANGED <<rebootVars, imgVars>>
    /\ UNCHANGED hostVars

\* tear_down: one pass of for server in servers: server.delete(); after the
\* last one the finally clause ends: a pending exception goes on, otherwise
\* run_tests reaches its last statement
tear_down ==
    /\ pc = "tear_down"
    /\ LET i == TeardownOrder[cur] IN
         /\ deleteCalls' = [deleteCalls EXCEPT ![i] = @ + 1]
         /\ \E ok \in BOOLEAN :
              IF ok
              THEN /\ status' = [status EXCEPT ![i] = "DELETED"]
                   /\ IF cur < Len(TeardownOrder)
                      THEN /\ cur' = cur + 1
                           /\ UNCHANGED <<pc, exitCode>>
                      ELSE /\ cur' = 1
                           /\ pc' = IF exc = "none" THEN "sys_exit" ELSE "exit"
                           /\ exitCode' = IF exc = "none" THEN exitCode ELSE 1
                   /\ UNCHANGED <<exc, failedAt>>
              ELSE /\ exc' = "ClientException"
                   /\ failedAt' = IF failedAt[1] = "" THEN <<pc, cur, step>> ELSE failedAt
                   /\ pc' = "exit"
                   /\ exitCode' = 1
                   /\ UNCHANGED <<status, cur>>
    /\ UNCHANGED <<ran, authCalled, args, images, handle, created, step, attempt, result, waited, tick,
                   cfgStarted, cfgDone, commanded, testsRun, retrieved>>
    /\ UNCHANGED waitVars
    /\ UNCHANGED sshVars
    /\ UNCHANGED os1Vars
    /\ UNCHANGED <<rebootVars, imgVars>>
    /\ UNCHANGED hostVars

\* the last statement of run_tests
sys_exit ==
    /\ pc = "sys_exit"
    /\ exitCode' = ExitStatus(result)
    /\ pc' = "exit"
    /\ UNCHANGED <<ran, authCalled, args, images, exc, status, handle, created, cur, step, attempt,
                   result, waited, tick, cfgStarted, cfgDone, commanded, deleteCalls,
                   testsRun, retrieved, failedAt>>
    /\ UNCHANGED waitVars
    /\ UNCHANGED sshVars
    /\ UNCHANGED os1Vars
    /\ UNCHANGED <<rebootVars, imgVars>>
    /\ UNCHANGED hostVars

----------------------------------------------------------------------------
(* OpenStack *)

\* an instance leaves BUILD: it becomes ACTIVE or ends in ERROR; by then it
\* has an address of its own on the network
openstack_build_ends(i) ==
    /\ status[i] = OPENSTACK_BUILD_KEYWORD
    /\ \E st \in LiveStatuses \ {OPENSTACK_BUILD_KEYWORD} :
         status' = [status EXCEPT ![i] = st]
    /\ \E ip \in Addresses \ {address[j] : j \in Instances} :
         address' = [address EXCEPT ![i] = ip]
    /\ UNCHANGED runVars
    /\ UNCHANGED waitVars
    /\ UNCHANGED sshVars
    /\ UNCHANGED os1Vars
    /\ UNCHANGED <<rebootVars, imgVars>>
    /\ UNCHANGED <<networks, ips, hostname, facts, hosts>>

\* an ACTIVE instance fails
openstack_instance_fails(i) ==
    /\ status[i] = OPENSTACK_ACTIVE_KEYWORD
    /\ status' = [status EXCEPT ![i] = "ERROR"]
    /\ UNCHANGED runVars
    /\ UNCHANGED waitVars
    /\ UNCHANGED sshVars
    /\ UNCHANGED os1Vars
    /\ UNCHANGED <<rebootVars, imgVars>>
    /\ UNCHANGED hostVars

OpenStack == \E i \in Instances : openstack_build_ends(i) \/ openstack_instance_fails(i)

----------------------------------------------------------------------------
(* The run of deploy-environment.py *)

\* the statements of run_tests
RunStep ==
    \/ validate_files
    \/ os1_authenticate
    \/ gather_images
    \/ create_instance_request
    \/ create_instance_wait
    \/ get_instance_ip
    \/ configure_command
    \/ fabric_confirm_ssh_key
    \/ run_nosetests
    \/ get_results
    \/ tear_down
    \/ sys_exit

Next == RunStep \/ OpenStack

Spec == Init /\ [][Next]_vars

\* the interpreter runs the next statement of the script as long as there is one
FairSpec == Spec /\ WF_vars(RunStep)

----------------------------------------------------------------------------
(* OS1Manager.wait_for_active_instances of os1_utils.py *)

\* range(0, timeout * 60, 10) still has the value x
in_range(x, t) == x < t * MINUTE_SECONDS

\* if server.status == OPENSTACK_BUILD_KEYWORD
still_building(st) == st = OPENSTACK_BUILD_KEYWORD

\* a variant of build_failed: the final check compares with the wrong keyword
build_failed_wrong_keyword(st) == st = OPENSTACK_BUILD_KEYWORD

\* if server.status != OPENSTACK_ACTIVE_KEYWORD
build_failed(st) == st # OPENSTACK_ACTIVE_KEYWORD

\* a variant of on_timeout: the outer loop has no else clause
on_timeout_return == "returned"

\* the else clause of the outer for loop
on_timeout == "RuntimeError"

\* the number of passes range(0, timeout * 60, 10) allows
Passes(t) == (t * MINUTE_SECONDS + POLL_SECONDS - 1) \div POLL_SECONDS

WaitInit ==
    /\ args = [key_file |-> TRUE, consumer_puppet |-> TRUE, server_puppet |-> TRUE,
               setup_only |-> FALSE, server_hostname |-> "", consumer_hostname |-> ""]
    /\ images = <<>>
    /\ pc = "idle"
    /\ RunFresh
    /\ HostsFresh
    /\ SshIdle
    /\ OS1Idle
    /\ ImageIdle
    /\ instance_list \in SeqsUpTo(Instances, MaxListLen)
    /\ timeout \in 0..MaxTimeout
    /\ status \in [Instances -> LiveStatuses \cup {"NONE"}]
    /\ \A i \in Instances : status[i] = "NONE" <=> i \notin Range(instance_list)
    /\ w_pc = "for_x"
    /\ w_x = 0
    /\ w_idx = 1
    /\ w_outcome = "none"
    /\ w_polls = 0
    /\ w_nonBuild = {}
    /\ w_final = <<>>

\* for x in range(0, timeout * 60, 10): ... else: raise RuntimeError
wait_for_x ==
    /\ w_pc = "for_x"
    /\ IF in_range(w_x, timeout)
       THEN /\ w_pc' = "for_server"
            /\ w_idx' = 1
            /\ UNCHANGED w_outcome
       ELSE /\ w_pc' = "done"
            /\ w_outcome' = on_timeout
            /\ UNCHANGED w_idx
    /\ UNCHANGED <<instance_list, timeout, w_x, w_polls, w_nonBuild, w_final>>
    /\ UNCHANGED <<status, runVars, hostVars, sshVars, os1Vars, rebootVars, imgVars>>

\* the first inner loop: is some instance still in the build state?
wait_for_server ==
    /\ w_pc = "for_server"
    /\ IF w_idx > Len(instance_list)
       THEN /\ w_pc' = "final"
            /\ w_idx' = 1
            /\ UNCHANGED <<w_x, w_outcome, w_polls, w_nonBuild>>
       ELSE LET i == instance_list[w_idx] IN
            \E ok \in BOOLEAN :
              IF ok
              THEN /\ w_polls' = w_polls + 1
                   /\ IF still_building(status[i])
                      THEN /\ w_x' = w_x + POLL_SECONDS
                           /\ w_pc' = "for_x"
                           /\ UNCHANGED <<w_idx, w_nonBuild>>
                      ELSE /\ w_idx' = w_idx + 1
                           /\ w_nonBuild' = w_nonBuild \cup {i}
                           /\ UNCHANGED <<w_x, w_pc>>
                   /\ UNCHANGED w_outcome
              ELSE /\ w_pc' = "done"
                   /\ w_outcome' = "ClientException"
                   /\ UNCHANGED <<w_x, w_idx, w_polls, w_nonBuild>>
    /\ UNCHANGED <<instance_list, timeout, w_final>>
    /\ UNCHANGED <<status, runVars, hostVars, sshVars, os1Vars, rebootVars, imgVars>>

\* the second inner loop: every server finished building; are they all active?
wait_final_check ==
    /\ w_pc = "final"
    /\ IF w_idx > Len(instance_list)
       THEN /\ w_pc' = "done"
            /\ w_outcome' = "returned"
            /\ UNCHANGED <<w_idx, w_polls, w_nonBuild, w_final>>
       ELSE LET i == instance_list[w_idx] IN
            \E ok \in BOOLEAN :
              IF ok
              THEN /\ w_polls' = w_polls + 1
                   /\ w_final' = Append(w_final, status[i])
                   /\ w_nonBuild' = IF still_building(status[i])
                                    THEN w_nonBuild ELSE w_nonBuild \cup {i}
                   /\ IF build_failed(status[i])
                      THEN /\ w_pc' = "done"
                           /\ w_outcome' = "RuntimeError"
                           /\ UNCHANGED w_idx
                      ELSE /\ w_idx' = w_idx + 1
                           /\ UNCHANGED <<w_pc, w_outcome>>
              ELSE /\ w_pc' = "done"
                   /\ w_outcome' = "ClientException"
                   /\ UNCHANGED <<w_idx, w_polls, w_nonBuild, w_final>>
    /\ UNCHANGED <<instance_list, timeout, w_x>>
    /\ UNCHANGED <<status, runVars, hostVars, sshVars, os1Vars, rebootVars, imgVars>>

\* the statements of wait_for_active_instances
WaitStep == wait_for_x \/ wait_for_server \/ wait_final_check

WaitNext == WaitStep \/ OpenStack

WaitSpec == WaitInit /\ [][WaitNext]_vars

----------------------------------------------------------------------------
(* Properties of run_tests *)

\* the run is over
Exited == pc = "exit"

\* C1: when a step of run_tests raises after at least one instance was
\* created, tear_down has been invoked on every instance created so far by
\* the time the process exits.
C1_TeardownAfterFailure ==
    (Exited /\ exc # "none" /\ created # <<>>)
        => \A i \in Range(created) : deleteCalls[i] >= 1

\* C2: in every run that built and configured its three instances and went
\* on to the test run, each instance has received exactly one delete call
\* when the process exits, whatever the test run did.
C2_ExactlyOneDelete ==
    (Exited /\ Range(created) = Instances /\ cfgDone = Instances /\ ~args.setup_only)
        => \A i \in Instances : deleteCalls[i] = 1

C6_ParentConfiguredFirst ==
    \A i \in {"pulp_consumer", "pulp_tester"} :
        (i \in cfgStarted \/ i \in commanded) => "pulp_server" \in cfgDone

\* C6 witness: a command of configure_consumer has been run.
C6_Witness ==
    /\ pc = "configure"
    /\ "pulp_consumer" \in commanded
    /\ "pulp_server" \in cfgDone

\* C7: once a build step or a configure_* call has raised, the run is over:
\* no later command of that call, no later configure_* call and no test run
\* is executed.
C7_FailureAborts ==
    /\ failedAt[1] \in {"create", "wait", "get_ip"}
         => /\ Exited
            /\ cfgStarted = {}
            /\ commanded = {}
            /\ ~testsRun
            /\ result = None
    /\ failedAt[1] = "configure"
         => /\ Exited
            /\ cur = failedAt[2]
            /\ step = failedAt[3]
            /\ cfgStarted = {<<"pulp_server", "pulp_consumer", "pulp_tester">>[k] :
                               k \in 1..failedAt[2]}
            /\ cfgDone = {<<"pulp_server", "pulp_consumer", "pulp_tester">>[k] :
                            k \in 1..(failedAt[2] - 1)}
            /\ commanded \subseteq cfgStarted
            /\ ~testsRun
            /\ result = None

\* C7 witness: the SSH confirmation of configure_consumer gave up with
\* RuntimeError.
C7_Witness ==
    /\ Exited
    /\ failedAt[1] = "configure"
    /\ failedAt[2] = 2
    /\ exc = "RuntimeError"
    /\ attempt = SSH_ATTEMPTS

\* C8: when the test command completed, its results file was retrieved and
\* nothing raised, the exit status is the runner's return code, whatever its
\* output; when the run failed with an exception the exit status is 1.
C8_ExitMirrorsReturnCode ==
    Exited =>
        /\ (exc = "none" /\ testsRun /\ retrieved) => exitCode = result.return_code
        /\ exc # "none" => exitCode = 1

\* C9: every wait loop is bounded, so a run of the script always ends.
C9_RunEnds == <>Exited

\* C10: commands are run on an instance only after its create request and
\* its build wait; delete is called on an instance only after every
\* configure_* call returned; no command is run on an instance after its
\* delete call.
C10_Lifecycle ==
    /\ [](\A i \in Instances :
            /\ (i \in commanded \/ i \in cfgStarted)
                 => /\ i \in Range(created)
                    /\ handle[i] \in LiveStatuses \ {OPENSTACK_BUILD_KEYWORD}
            /\ deleteCalls[i] > 0 => cfgDone = Instances)
    /\ [][/\ (configure_command \/ fabric_confirm_ssh_key)
               => deleteCalls[ConfigOrder[cur]] = 0
          /\ (run_nosetests \/ get_results) => deleteCalls["pulp_tester"] = 0]_vars

\* C10 witness: a run that built, configured, tested and deleted all three
\* instances.
C10_Witness ==
    /\ Exited
    /\ commanded = Instances
    /\ testsRun
    /\ \A i \in Instances : deleteCalls[i] = 1

\* C11: with --setup-only the tests are never run and tear_down is never
\* called; after a setup that configured all three instances, no delete call
\* was made and all three instances still exist when the process exits.
C11_SetupOnlyKeepsInstances ==
    args.setup_only
        => /\ ~testsRun
           /\ result = None
           /\ \A i \in Instances : deleteCalls[i] = 0
           /\ (Exited /\ cfgDone = Instances)
                => \A i \in Instances : status[i] \in LiveStatuses

\* C11 witness: a setup-only run configured all three instances and exited.
C11_Witness ==
    /\ args.setup_only
    /\ Exited
    /\ exc = "none"
    /\ cfgDone = Instances

\* one of the three paths given on the command line is not a file
C14_SomeFileMissing ==
    \E f \in {"key_file", "consumer_puppet", "server_puppet"} : ~args[f]

\* C14: run_tests validates its inputs before it touches the cloud: when the
\* key file or a manifest is not a file it raises ValueError without calling
\* os1_authenticate, and when no image matches the distribution the statement
\* that filters the images raises ValueError; in both cases no create request
\* and no delete request is ever sent.
C14_ValidatesBeforeCloud ==
    /\ C14_SomeFileMissing
         => /\ ~authCalled
            /\ pc \in {"validate", "exit"}
            /\ Exited => exc = "ValueError" /\ failedAt[1] = "validate"
    /\ pulp_server_images = <<>>
         => /\ (Exited /\ authCalled /\ failedAt[1] # "authenticate")
                 => exc = "ValueError" /\ failedAt[1] = "images"
            /\ pc \in {"validate", "authenticate", "images", "exit"}
    /\ (C14_SomeFileMissing \/ pulp_server_images = <<>>)
         => /\ created = <<>>
            /\ \A i \in Instances : status[i] = "NONE" /\ deleteCalls[i] = 0

\* C14 witness: the server manifest alone is missing and the run has ended.
C14_Witness ==
    /\ Exited
    /\ args.key_file /\ args.consumer_puppet /\ ~args.server_puppet

\* the /etc/hosts entry that names an instance by the address OpenStack gave
\* it and the host name set on it
ActualEntry(i) == <<address[i], hostname[i]>>

\* C12: the server host name and address handed to configure_consumer and
\* configure_tester are those of the built and configured server: when either
\* call is entered configure_server has returned, the host name argument is
\* the name set on the server and the address argument is the server's
\* address; the consumer's external_pulp_server fact is the server's host name
\* and the /etc/hosts entries on consumer and tester name the server (and, on
\* the tester, the consumer) by the actual host name and address.
C12_ServerIdentityFlowsDown ==
    /\ \A i \in {"pulp_consumer", "pulp_tester"} :
         i \in cfgStarted
           => /\ "pulp_server" \in cfgDone
              /\ address["pulp_server"] \in Addresses
              /\ CallArgs(i).server_ip = address["pulp_server"]
              /\ CallArgs(i).server_hostname = hostname["pulp_server"]
    /\ facts["pulp_consumer"] # "" => facts["pulp_consumer"] = hostname["pulp_server"]
    /\ facts["pulp_server"] = "" /\ facts["pulp_tester"] = ""
    /\ hosts["pulp_server"] = <<>>
    /\ \A k \in 1..Len(hosts["pulp_consumer"]) :
         hosts["pulp_consumer"][k] = ActualEntry("pulp_server")
    /\ \A k \in 1..Len(hosts["pulp_tester"]) :
         hosts["pulp_tester"][k] =
            IF k = 1 THEN ActualEntry("pulp_server") ELSE ActualEntry("pulp_consumer")
    /\ "pulp_consumer" \in cfgDone
         => /\ facts["pulp_consumer"] = hostname["pulp_server"]
            /\ hosts["pulp_consumer"] = <<ActualEntry("pulp_server")>>
    /\ "pulp_tester" \in cfgDone
         => hosts["pulp_tester"] =
              <<ActualEntry("pulp_server"), ActualEntry("pulp_consumer")>>

\* C12 witness: all three instances are configured under a server host name
\* given on the command line, and the tester's /etc/hosts has both entries.
C12_Witness ==
    /\ cfgDone = Instances
    /\ args.server_hostname = "pulp-a"
    /\ hostname["pulp_server"] = "pulp-a"
    /\ Len(hosts["pulp_tester"]) = 2

\* p is a subsequence of s: its elements occur in s in the same order
RECURSIVE IsSubsequence(_, _)
IsSubsequence(p, s) ==
    IF p = <<>> THEN TRUE
    ELSE IF s = <<>> THEN FALSE
    ELSE IF Head(p) = Head(s) THEN IsSubsequence(Tail(p), Tail(s))
    ELSE IsSubsequence(p, Tail(s))

\* what has to be done on a host before its manifest is applied: SSH access
\* confirmed, the host name set, each module of PUPPET_MODULES installed and
\* the facts file moved into place
C23_BeforeManifest ==
    << <<"fabric_confirm_ssh_key", "">>, <<"run", "hostname">> >>
    \o [k \in 1..Len(PUPPET_MODULES) |-> <<"run", PUPPET_MODULES[k]>>]
    \o << <<"put", "facts.json">>, <<"run", "mv facts.json">> >>

\* C23: on the server and on the consumer the manifest is applied only after
\* SSH access was confirmed, the host name was set, every module of
\* PUPPET_MODULES was installed and the external facts were injected, in this
\* order; on the consumer the /etc/hosts entry for the server is written
\* after the manifest was applied and is the last remote call.
C23_ManifestAfterPrerequisites ==
    /\ \A i \in {"pulp_server", "pulp_consumer"} :
         /\ \A k \in 1..Len(ran[i]) :
              ran[i][k] = <<"run", "puppet apply">>
                 => IsSubsequence(C23_BeforeManifest, SubSeq(ran[i], 1, k - 1))
         /\ ran[i] # <<>> => ran[i][1] = <<"fabric_confirm_ssh_key", "">>
         /\ i \in cfgDone => \E k \in 1..Len(ran[i]) : ran[i][k] = <<"run", "puppet apply">>
    /\ \A k \in 1..Len(ran["pulp_consumer"]) :
         ran["pulp_consumer"][k] = <<"run", "hosts server">>
            => /\ k = Len(ran["pulp_consumer"])
               /\ ran["pulp_consumer"][k - 1] = <<"run", "puppet apply">>
               /\ "pulp_consumer" \in cfgDone
    /\ "pulp_consumer" \in cfgDone
         => ran["pulp_consumer"][Len(ran["pulp_consumer"])] = <<"run", "hosts server">>
    /\ ran["pulp_server"] # <<>> /\ "pulp_server" \in cfgDone
         => ran["pulp_server"][Len(ran["pulp_server"])] = <<"run", "puppet apply">>

\* C23 witness: server and consumer are configured, each with its manifest
\* applied, and the consumer's /etc/hosts entry was written.
C23_Witness ==
    /\ {"pulp_server", "pulp_consumer"} \subseteq cfgDone
    /\ \E k \in 1..Len(ran["pulp_consumer"]) :
         ran["pulp_consumer"][k] = <<"run", "puppet apply">>
    /\ hosts["pulp_consumer"] # <<>>

\* C13: tear_down is best effort: when the first delete was requested, every
\* instance of the list has had its delete requested by the time the process
\* exits, whether or not an earlier delete raised.
C13_TeardownBestEffort ==
    (Exited /\ deleteCalls[TeardownOrder[1]] > 0)
        => \A i \in Instances : deleteCalls[i] > 0

\* create_instance has returned the server object of instance i: its build
\* loop was left without an exception
Returned(i) ==
    /\ i \in Range(created)
    /\ ~(pc = "wait" /\ BuildOrder[cur] = i)
    /\ ~(failedAt[1] = "wait" /\ BuildOrder[failedAt[2]] = i)

\* C15: the server object create_instance returns always has status ACTIVE.
C15_ReturnedServerActive ==
    \A i \in Instances : Returned(i) => handle[i] = OPENSTACK_ACTIVE_KEYWORD

----------------------------------------------------------------------------
(* OS1Manager.create_instance and OS1Manager.take_snapshot of os1_utils.py *)

\* the statuses OpenStack holds for a snapshot that exists
SnapshotStatuses == {"SAVING", OPENSTACK_ACTIVE_KEYWORD, "ERROR"}

\* a variant of snapshot_pending: only a snapshot being saved is waited for
snapshot_pending_saving(st) == st = "SAVING"

\* the loop condition of take_snapshot: keep sleeping and polling
snapshot_pending(st) == st # OPENSTACK_ACTIVE_KEYWORD

\* a variant of reboot_in_range: the loop gives up after one minute
reboot_in_range_one_minute(x) == x < 60

\* x is a value of the loop of reboot_instance: for x in range(0, 120, 10)
reboot_in_range(x) == x < 120

\* the call of a method ends: with its return, or with the exception raised;
\* the caller of create_instance goes on to take a snapshot of the instance
\* or to reboot it
Ends(method, how) ==
    /\ o_outcome' = [o_outcome EXCEPT ![method] = how]
    /\ o_pc' = IF how = "returned" /\ method = "create_instance"
               THEN "client" ELSE "done"

OS1Init ==
    /\ o_pc = "create_instance"
    /\ o_instance \in Instances
    /\ OS1Fresh
    /\ status = [i \in Instances |-> "NONE"]
    /\ RunIdle
    /\ WaitIdle
    /\ SshIdle
    /\ ImageIdle

\* create_instance: _authenticate, nova.flavors.find and nova.servers.create;
\* an accepted request starts the instance in BUILD
os1_create_instance ==
    /\ o_pc = "create_instance"
    /\ \E ok \in BOOLEAN :
         IF ok
         THEN /\ status' = [status EXCEPT ![o_instance] = OPENSTACK_BUILD_KEYWORD]
              /\ o_server' = OPENSTACK_BUILD_KEYWORD
              /\ o_pc' = "return server"
              /\ UNCHANGED o_outcome
         ELSE /\ Ends("create_instance", "ClientException")
              /\ UNCHANGED <<status, o_server>>
    /\ UNCHANGED <<o_instance, o_snapshot, snapshot, o_atReturn, o_polls, o_setMeta>>
    /\ UNCHANGED <<runVars, hostVars, waitVars, sshVars, rebootVars, imgVars>>

\* create_instance: if init_file: init_file.close(); return server
os1_create_instance_return ==
    /\ o_pc = "return server"
    /\ o_atReturn' = status[o_instance]
    /\ Ends("create_instance", "returned")
    /\ UNCHANGED <<o_instance, o_server, o_snapshot, snapshot, o_polls, o_setMeta>>
    /\ UNCHANGED <<status, runVars, hostVars, waitVars, sshVars, rebootVars, imgVars>>

\* take_snapshot: _authenticate and server.create_image(snapshot_name)
os1_take_snapshot ==
    /\ o_pc = "client"
    /\ \E ok \in BOOLEAN :
         IF ok
         THEN /\ snapshot' = "SAVING"
              /\ o_pc' = "get"
              /\ UNCHANGED o_outcome
         ELSE /\ Ends("take_snapshot", "ClientException")
              /\ UNCHANGED snapshot
    /\ UNCHANGED <<o_instance, o_server, o_snapshot, o_atReturn, o_polls, o_setMeta>>
    /\ UNCHANGED <<status, runVars, hostVars, waitVars, sshVars, rebootVars, imgVars>>

\* take_snapshot: snapshot = self.nova.images.get(snapshot_id)
os1_take_snapshot_get ==
    /\ o_pc = "get"
    /\ o_polls' = o_polls + 1
    /\ \E ok \in BOOLEAN :
         IF ok
         THEN /\ o_snapshot' = snapshot
              /\ o_pc' = "while"
              /\ UNCHANGED o_outcome
         ELSE /\ Ends("take_snapshot", "ClientException")
              /\ UNCHANGED o_snapshot
    /\ UNCHANGED <<o_instance, o_server, snapshot, o_atReturn, o_setMeta>>
    /\ UNCHANGED <<status, runVars, hostVars, waitVars, sshVars, rebootVars, imgVars>>

\* take_snapshot: while snapshot.status != ACTIVE: sleep, nova.images.get
os1_take_snapshot_wait ==
    /\ o_pc = "while"
    /\ IF snapshot_pending(o_snapshot)
       THEN /\ o_polls < MaxPolls
            /\ o_polls' = o_polls + 1
            /\ \E ok \in BOOLEAN :
                 IF ok
                 THEN /\ o_snapshot' = snapshot
                      /\ UNCHANGED <<o_pc, o_outcome>>
                 ELSE /\ Ends("take_snapshot", "ClientException")
                      /\ UNCHANGED o_snapshot
       ELSE /\ o_pc' = "set_meta"
            /\ UNCHANGED <<o_snapshot, o_outcome, o_polls>>
    /\ UNCHANGED <<o_instance, o_server, snapshot, o_atReturn, o_setMeta>>
    /\ UNCHANGED <<status, runVars, hostVars, waitVars, sshVars, rebootVars, imgVars>>

\* take_snapshot: self.nova.images.ImageManager.set_meta(snapshot_id, metadata)
\* and return snapshot; the call into the client library returns or raises
os1_take_snapshot_set_meta ==
    /\ o_pc = "set_meta"
    /\ o_setMeta' = Append(o_setMeta, o_snapshot)
    /\ \E ok \in BOOLEAN :
         Ends("take_snapshot", IF ok THEN "returned" ELSE "Exception")
    /\ UNCHANGED <<o_instance, o_server, o_snapshot, snapshot, o_atReturn, o_polls>>
    /\ UNCHANGED <<status, runVars, hostVars, waitVars, sshVars, rebootVars, imgVars>>

\* reboot_instance: _authenticate and server.reboot(); OpenStack refuses to
\* reboot an instance it is still building
os1_reboot_instance ==
    /\ o_pc = "client"
    /\ \E how \in {"ok", "not authenticated", "refused"} :
         /\ r_reboots' = IF how = "not authenticated" THEN r_reboots ELSE r_reboots + 1
         /\ IF how = "ok" /\ status[o_instance] # OPENSTACK_BUILD_KEYWORD
            THEN /\ status' = [status EXCEPT ![o_instance] = "REBOOT"]
                 /\ o_pc' = "for"
                 /\ r_x' = 0
                 /\ UNCHANGED o_outcome
            ELSE /\ Ends("reboot_instance", "ClientException")
                 /\ UNCHANGED <<status, r_x>>
    /\ UNCHANGED <<o_instance, o_server, o_snapshot, snapshot, o_atReturn, o_polls,
                   o_setMeta, r_polls, r_slept, r_seen>>
    /\ UNCHANGED <<runVars, hostVars, waitVars, sshVars, imgVars>>

\* reboot_instance: one pass of for x in range(0, 120, 10): sleep, get, break
\* if ACTIVE; or the else clause of the loop
os1_reboot_instance_for ==
    /\ o_pc = "for"
    /\ IF reboot_in_range(r_x)
       THEN /\ r_slept' = r_slept + 10
            /\ r_polls' = r_polls + 1
            /\ \E ok \in BOOLEAN :
                 IF ok
                 THEN /\ o_server' = status[o_instance]
                      /\ r_seen' = Append(r_seen, status[o_instance])
                      /\ IF status[o_instance] = OPENSTACK_ACTIVE_KEYWORD
                         THEN Ends("reboot_instance", "returned") /\ UNCHANGED r_x
                         ELSE r_x' = r_x + 10 /\ UNCHANGED <<o_pc, o_outcome>>
                 ELSE /\ Ends("reboot_instance", "ClientException")
                      /\ UNCHANGED <<o_server, r_seen, r_x>>
       ELSE /\ Ends("reboot_instance", "RuntimeError")
            /\ UNCHANGED <<o_server, r_x, r_polls, r_slept, r_seen>>
    /\ UNCHANGED <<o_instance, o_snapshot, snapshot, o_atReturn, o_polls, o_setMeta,
                   r_reboots>>
    /\ UNCHANGED <<status, runVars, hostVars, waitVars, sshVars, imgVars>>

\* OpenStack finishes the reboot: the instance is ACTIVE again or ends in ERROR
openstack_reboot_ends ==
    /\ o_instance \in Instances
    /\ status[o_instance] = "REBOOT"
    /\ \E st \in {OPENSTACK_ACTIVE_KEYWORD, "ERROR"} :
         status' = [status EXCEPT ![o_instance] = st]
    /\ UNCHANGED <<os1Vars, rebootVars>>
    /\ UNCHANGED <<runVars, hostVars, waitVars, sshVars, imgVars>>

\* OpenStack finishes the snapshot: it becomes ACTIVE or ends in ERROR
openstack_snapshot_ends ==
    /\ snapshot = "SAVING"
    /\ \E st \in SnapshotStatuses \ {"SAVING"} : snapshot' = st
    /\ UNCHANGED <<o_pc, o_instance, o_server, o_snapshot, o_outcome, o_atReturn,
                   o_polls, o_setMeta>>
    /\ UNCHANGED <<status, runVars, hostVars, waitVars, sshVars, rebootVars, imgVars>>

\* the statements of the OS1Manager methods
OS1Step ==
    \/ os1_create_instance
    \/ os1_create_instance_return
    \/ os1_take_snapshot
    \/ os1_take_snapshot_get
    \/ os1_take_snapshot_wait
    \/ os1_take_snapshot_set_meta
    \/ os1_reboot_instance
    \/ os1_reboot_instance_for

OS1Next == OS1Step \/ OpenStack \/ openstack_snapshot_ends \/ openstack_reboot_ends

OS1Spec == OS1Init /\ [][OS1Next]_vars

\* C16: OS1Manager.create_instance does not return while the status of the
\* instance it created is still BUILD.
C16_CreateReturnsAfterBuild ==
    o_outcome["create_instance"] = "returned" => o_atReturn # OPENSTACK_BUILD_KEYWORD

\* C21: reboot_instance issues one reboot, then polls the instance at most 12
\* times with a 10 second sleep before each poll; it returns normally if and
\* only if a poll read ACTIVE, and that poll is its last; it raises RuntimeError
\* if and only if 12 polls were made and none read ACTIVE.
C21_RebootPollsTwelveTimes ==
    /\ r_reboots <= 1
    /\ r_polls <= 12
    /\ r_polls > 0 => r_reboots = 1
    /\ r_slept = 10 * r_polls
    /\ Len(r_seen) <= r_polls
    /\ \A k \in 1..Len(r_seen) :
         r_seen[k] = OPENSTACK_ACTIVE_KEYWORD
            => k = Len(r_seen) /\ o_outcome["reboot_instance"] = "returned"
    /\ o_outcome["reboot_instance"] = "returned"
         <=> (r_seen # <<>> /\ r_seen[Len(r_seen)] = OPENSTACK_ACTIVE_KEYWORD)
    /\ o_outcome["reboot_instance"] = "RuntimeError"
         <=> /\ o_pc = "done"
             /\ Len(r_seen) = 12
             /\ \A k \in 1..12 : r_seen[k] # OPENSTACK_ACTIVE_KEYWORD

\* C21 witness: the reboot hung: 12 polls in 120 seconds, none read ACTIVE,
\* and the call ended with RuntimeError.
C21_Witness ==
    /\ o_outcome["reboot_instance"] = "RuntimeError"
    /\ r_polls = 12
    /\ r_slept = 120
    /\ r_reboots = 1

\* C20: take_snapshot sets the metadata and returns only after a poll saw the
\* snapshot ACTIVE: set_meta is called at most once, only when the status last
\* read is ACTIVE, and a call that returned made exactly one set_meta call.
C20_SnapshotActiveBeforeMeta ==
    /\ Len(o_setMeta) <= 1
    /\ \A k \in 1..Len(o_setMeta) : o_setMeta[k] = OPENSTACK_ACTIVE_KEYWORD
    /\ (o_pc = "set_meta" \/ o_setMeta # <<>>)
         => /\ o_polls >= 1
            /\ o_snapshot = OPENSTACK_ACTIVE_KEYWORD
            /\ snapshot = OPENSTACK_ACTIVE_KEYWORD
    /\ o_outcome["take_snapshot"] = "returned"
         => /\ Len(o_setMeta) = 1
            /\ o_snapshot = OPENSTACK_ACTIVE_KEYWORD
    /\ o_setMeta # <<>> => o_pc = "done"

\* C20 witness: take_snapshot returned after it slept on a snapshot that was
\* still being saved.
C20_Witness ==
    /\ o_outcome["take_snapshot"] = "returned"
    /\ o_polls >= 2
    /\ o_setMeta = <<OPENSTACK_ACTIVE_KEYWORD>>

----------------------------------------------------------------------------
(* OS1Manager.get_pulp_images and OS1Manager.get_distribution_image *)

\* the distributions get_distribution_image is asked for
Distributions == ImageTags \ {"absent"}

\* get_pulp_images: the images whose metadata has the distribution key, as
\* their positions in nova.images.list(), in the order of that list
get_pulp_images ==
    SelectSeq([k \in 1..Len(images) |-> k], LAMBDA k : images[k] # "absent")

\* a variant of distribution_matches: any image with a distribution will do
distribution_matches_any(tag, d) == tag # "absent"

\* image.metadata[META_DISTRIBUTION_KEYWORD] == distribution
distribution_matches(tag, d) == tag = d

\* the for loop of get_distribution_image over a list of image positions:
\* pulp_image is the first image that matches, None (0) if the loop ends
\* without a break
RECURSIVE first_matching(_, _)
first_matching(pulp_images, d) ==
    IF pulp_images = <<>> THEN 0
    ELSE IF distribution_matches(images[Head(pulp_images)], d) THEN Head(pulp_images)
    ELSE first_matching(Tail(pulp_images), d)

ImageInit ==
    /\ images \in SeqsUpTo(ImageTags, MaxImageList)
    /\ distribution \in Distributions
    /\ i_pc = "call"
    /\ pulp_image = 0
    /\ i_outcome = "none"
    /\ args = [key_file |-> TRUE, consumer_puppet |-> TRUE, server_puppet |-> TRUE,
               setup_only |-> FALSE, server_hostname |-> "", consumer_hostname |-> ""]
    /\ pc = "idle"
    /\ status = [i \in Instances |-> "NONE"]
    /\ RunFresh
    /\ HostsFresh
    /\ WaitIdle
    /\ SshIdle
    /\ OS1Idle

\* get_distribution_image: get_pulp_images() authenticates and lists the
\* images, which can raise
image_get_pulp_images ==
    /\ i_pc = "call"
    /\ \E ok \in BOOLEAN :
         IF ok
         THEN i_pc' = "for" /\ UNCHANGED i_outcome
         ELSE i_pc' = "done" /\ i_outcome' = "ClientException"
    /\ UNCHANGED <<distribution, pulp_image>>
    /\ UNCHANGED <<status, runVars, hostVars, waitVars, sshVars, os1Vars, rebootVars>>

\* get_distribution_image: the for loop
image_for ==
    /\ i_pc = "for"
    /\ pulp_image' = first_matching(get_pulp_images, distribution)
    /\ i_pc' = "if"
    /\ UNCHANGED <<distribution, i_outcome>>
    /\ UNCHANGED <<status, runVars, hostVars, waitVars, sshVars, os1Vars, rebootVars>>

\* get_distribution_image: if not pulp_image: raise ValueError; return pulp_image
image_return ==
    /\ i_pc = "if"
    /\ i_outcome' = IF pulp_image = 0 THEN "ValueError" ELSE "returned"
    /\ i_pc' = "done"
    /\ UNCHANGED <<distribution, pulp_image>>
    /\ UNCHANGED <<status, runVars, hostVars, waitVars, sshVars, os1Vars, rebootVars>>

ImageNext == image_get_pulp_images \/ image_for \/ image_return

ImageSpec == ImageInit /\ [][ImageNext]_vars

\* C22: get_distribution_image returns the first image, in list order, whose
\* distribution is the one asked for: never an image of another distribution
\* or without the key; it raises ValueError if and only if no image has that
\* distribution.
C22_FirstImageOfDistribution ==
    /\ i_outcome = "returned"
         => /\ pulp_image \in 1..Len(images)
            /\ images[pulp_image] = distribution
            /\ \A k \in 1..(pulp_image - 1) : images[k] # distribution
    /\ i_outcome = "ValueError" => \A k \in 1..Len(images) : images[k] # distribution
    /\ (i_pc = "done" /\ i_outcome # "ClientException")
         => \/ i_outcome = "returned"
            \/ i_outcome = "ValueError"
    /\ i_pc # "done" => i_outcome = "none"

\* C22 witness: two images have the distribution asked for, after an image of
\* another kind, and the first of the two is returned.
C22_Witness ==
    /\ i_outcome = "returned"
    /\ Len(images) = 3
    /\ images[1] # distribution
    /\ images[2] = distribution /\ images[3] = distribution
    /\ pulp_image = 2

----------------------------------------------------------------------------
(* fabric_confirm_ssh_key of utils.py, deploy-environment.py and setup_utils.py *)

\* the modules that define a fabric_confirm_ssh_key
Modules == {"utils", "deploy-environment", "setup_utils"}

\* a variant of xrange_stop: every module tries ten times
xrange_stop_ten(mod) == 10

\* the stop of the for loop: for x in xrange(0, stop)
xrange_stop(mod) ==
    CASE mod = "utils" -> 10
      [] mod = "deploy-environment" -> SSH_ATTEMPTS
      [] OTHER -> 30

\* the seconds slept after a failed attempt: time.sleep(seconds)
sleep_seconds(mod) == IF mod = "utils" THEN 30 ELSE 10

\* a variant of for_else: no module has an else clause
for_else_absent(mod) == "return"

\* what the function does when the loop ends without a break: utils.py has
\* no else clause and returns, deploy-environment.py raises RuntimeError,
\* setup_utils.py runs 'whoami' once more outside the try statement
for_else(mod) ==
    CASE mod = "utils" -> "return"
      [] mod = "deploy-environment" -> "raise RuntimeError"
      [] OTHER -> "run whoami"

SshInit ==
    /\ module \in Modules
    /\ s_pc = "try"
    /\ s_x = 0
    /\ s_outcome = "none"
    /\ s_runs = 0
    /\ s_ok = 0
    /\ s_slept = 0
    /\ status = [i \in Instances |-> "NONE"]
    /\ RunIdle
    /\ WaitIdle
    /\ OS1Idle
    /\ ImageIdle

\* for x in xrange(...): the loop goes on with the next x, or is exhausted
ssh_for ==
    /\ s_pc = "for"
    /\ IF s_x + 1 < xrange_stop(module)
       THEN s_pc' = "try" /\ s_x' = s_x + 1
       ELSE s_pc' = "else" /\ UNCHANGED s_x
    /\ UNCHANGED <<module, s_outcome, s_runs, s_ok, s_slept>>
    /\ UNCHANGED <<status, runVars, hostVars, waitVars, os1Vars, rebootVars, imgVars>>

\* try: run('whoami'); break: fabric aborts with SystemExit when it cannot
\* log in, and the except clause is entered
ssh_try ==
    /\ s_pc = "try"
    /\ s_runs' = s_runs + 1
    /\ \E ok \in BOOLEAN :
         IF ok
         THEN /\ s_ok' = s_ok + 1
              /\ s_pc' = "done"
              /\ s_outcome' = "returned"
         ELSE /\ s_pc' = "except"
              /\ UNCHANGED <<s_ok, s_outcome>>
    /\ UNCHANGED <<module, s_x, s_slept>>
    /\ UNCHANGED <<status, runVars, hostVars, waitVars, os1Vars, rebootVars, imgVars>>

\* except SystemExit: time.sleep(...)
ssh_except ==
    /\ s_pc = "except"
    /\ s_slept' = s_slept + sleep_seconds(module)
    /\ s_pc' = "for"
    /\ UNCHANGED <<module, s_x, s_outcome, s_runs, s_ok>>
    /\ UNCHANGED <<status, runVars, hostVars, waitVars, os1Vars, rebootVars, imgVars>>

\* the loop ended without a break
ssh_else ==
    /\ s_pc = "else"
    /\ s_pc' = "done"
    /\ CASE for_else(module) = "return" ->
              /\ s_outcome' = "returned"
              /\ UNCHANGED <<s_runs, s_ok>>
         [] for_else(module) = "raise RuntimeError" ->
              /\ s_outcome' = "RuntimeError"
              /\ UNCHANGED <<s_runs, s_ok>>
         [] OTHER ->
              /\ s_runs' = s_runs + 1
              /\ \E ok \in BOOLEAN :
                   IF ok
                   THEN s_ok' = s_ok + 1 /\ s_outcome' = "returned"
                   ELSE s_outcome' = "SystemExit" /\ UNCHANGED s_ok
    /\ UNCHANGED <<module, s_x, s_slept>>
    /\ UNCHANGED <<status, runVars, hostVars, waitVars, os1Vars, rebootVars, imgVars>>

SshNext == ssh_for \/ ssh_try \/ ssh_except \/ ssh_else

SshSpec == SshInit /\ [][SshNext]_vars

\* the run('whoami') calls that failed
s_failed == s_runs - s_ok

\* C17: whenever fabric_confirm_ssh_key of utils.py returns normally, at least
\* one run('whoami') has succeeded.
C17_ReturnMeansReachable ==
    (module = "utils" /\ s_outcome = "returned") => s_ok >= 1

----------------------------------------------------------------------------
(* Properties of wait_for_active_instances *)

C5_ReturnsOnlyWhenAllActive ==
    /\ w_outcome = "returned"
         => /\ Len(w_final) = Len(instance_list)
            /\ \A k \in 1..Len(w_final) : w_final[k] = "ACTIVE"
    /\ (w_pc = "done" /\ \E k \in 1..Len(w_final) : w_final[k] # "ACTIVE")
         => w_outcome = "RuntimeError"

\* C5 witness: both instances had left BUILD, the final check read ACTIVE
\* for the first and ERROR for the second, and the call raised.
C5_Witness ==
    /\ w_pc = "done"
    /\ w_outcome = "RuntimeError"
    /\ Len(instance_list) = 2
    /\ w_final = <<"ACTIVE", "ERROR">>

====
